---- MODULE Spec2Model ----
(***************************************************************************)
(* Model of the CPIO (newc) reader of fsdbg: src/src/cpio.rs.              *)
(*                                                                         *)
(* Bytes are integers 0..255 and strings are sequences of code points, so  *)
(* "./a" is <<46, 47, 97>>.  The byte source handed to parse_cpio is an    *)
(* input: every read_exact either delivers the requested number of bytes,  *)
(* drawn from small sets, or finds fewer bytes available than requested.   *)
(***************************************************************************)
EXTENDS Integers, Sequences, FiniteSets, TLC

VARIABLES
    pc,           \* position of parse_cpio in its record loop
    offset,       \* bytes consumed from the reader so far
    header,       \* the 110 header bytes of the current record
    fields,       \* the header fields decoded by parse_hex
    name_buf,     \* the namesize name bytes of the current record
    name,         \* the name after removal of the last byte
    content,      \* the filesize content bytes of the current record
    entries,      \* Vec<CpioEntry> under construction
    entry_map,    \* HashMap<String, usize> under construction
    result,       \* what parse_cpio returned
    fault,        \* where the byte source failed, how, and with how many bytes left
    archive,      \* the name fields of the records the source delivered in full
    lookup,       \* answers of the exists / get calls made on the reader
    norm,         \* inputs and outputs of the normalize_path calls
    call,         \* another call made by a caller: operation, arguments, result
    report        \* a VerificationReport: results, artifact_type

vars == <<pc, offset, header, fields, name_buf, name, content,
          entries, entry_map, result, fault, archive, lookup, norm, call, report>>

(***************************************************************************)
(* Bounds of the model.                                                    *)
(***************************************************************************)
MaxRecords == 2     \* records accepted before the source must end the archive
MaxSize == 7        \* largest namesize and filesize given to the padding rules
MaxResults == 3     \* results added to a VerificationReport
MaxPathLen == 4     \* longest string given to normalize_path on its own

(***************************************************************************)
(* Characters.                                                             *)
(***************************************************************************)
NUL == 0
PLUS == 43
MINUS == 45
DOT == 46
SLASH == 47
BAD_BYTE == 255       \* a byte that never occurs in valid UTF-8
REPLACEMENT == 65533  \* U+FFFD, what a lossy decode puts for it

StartsWith(s, pat) ==
    /\ Len(s) >= Len(pat)
    /\ SubSeq(s, 1, Len(pat)) = pat

Drop(s, n) == SubSeq(s, n + 1, Len(s))

(***************************************************************************)
(* str::trim_start_matches: removes the pattern from the start of the      *)
(* string as many times as it occurs there.                                *)
(***************************************************************************)
RECURSIVE trim_start_matches(_, _)
trim_start_matches(s, pat) ==
    IF Len(pat) > 0 /\ StartsWith(s, pat)
    THEN trim_start_matches(Drop(s, Len(pat)), pat)
    ELSE s

\* a normalize_path that forgets the leading '/'
normalize_path_DotSlashOnly(path) == trim_start_matches(path, <<DOT, SLASH>>)

(***************************************************************************)
(* CpioReader::normalize_path                                              *)
(*   path.trim_start_matches("./").trim_start_matches('/')                 *)
(***************************************************************************)
normalize_path(path) ==
    trim_start_matches(trim_start_matches(path, <<DOT, SLASH>>), <<SLASH>>)

(***************************************************************************)
(* Strings over a small alphabet, for the calls of normalize_path.         *)
(***************************************************************************)
PathAlphabet == {DOT, SLASH, 97}      \* '.', '/', 'a'

PathsOfLen(n) == [1..n -> PathAlphabet]

Paths == UNION {PathsOfLen(n) : n \in 0..MaxPathLen}

(***************************************************************************)
(* Rust slices and options.  buf[a..b] holds the bytes at the 0-based      *)
(* offsets a .. b-1.                                                       *)
(***************************************************************************)
Slice(buf, a, b) == SubSeq(buf, a + 1, b)

None == << >>

Some(x) == <<x>>

saturating_sub(a, b) == IF a >= b THEN a - b ELSE 0

(***************************************************************************)
(* std::str::from_utf8 and String::from_utf8_lossy on the bytes the model  *)
(* uses: ASCII bytes are themselves, BAD_BYTE is never valid UTF-8 and a   *)
(* lossy decode replaces each one by U+FFFD.                               *)
(***************************************************************************)
is_utf8(bytes) == \A i \in 1..Len(bytes) : bytes[i] < 128

from_utf8_lossy(bytes) ==
    [i \in 1..Len(bytes) |-> IF bytes[i] < 128 THEN bytes[i] ELSE REPLACEMENT]

(***************************************************************************)
(* u32::from_str_radix(s, 16): an optional leading '+', then at least one  *)
(* hexadecimal digit of either case and nothing else.  Eight characters    *)
(* never overflow a u32.                                                   *)
(***************************************************************************)
to_digit(c) ==
    IF c >= 48 /\ c <= 57 THEN c - 48
    ELSE IF c >= 65 /\ c <= 70 THEN c - 55
    ELSE IF c >= 97 /\ c <= 102 THEN c - 87
    ELSE -1

RECURSIVE radix16_value(_)
radix16_value(digits) ==
    IF Len(digits) = 0 THEN 0
    ELSE radix16_value(SubSeq(digits, 1, Len(digits) - 1)) * 16
             + to_digit(digits[Len(digits)])

from_str_radix(s) ==
    LET digits == IF Len(s) > 0 /\ s[1] = PLUS THEN Drop(s, 1) ELSE s
    IN  IF Len(s) = 0 \/ s = <<PLUS>> \/ s = <<MINUS>>
        THEN [ok |-> FALSE, val |-> 0]
        ELSE IF \E i \in 1..Len(digits) : to_digit(digits[i]) < 0
        THEN [ok |-> FALSE, val |-> 0]
        ELSE [ok |-> TRUE, val |-> radix16_value(digits)]

(***************************************************************************)
(* The parse_hex closure of parse_cpio.                                    *)
(***************************************************************************)
parse_hex(slice) ==
    IF ~is_utf8(slice)
    THEN [ok |-> FALSE, val |-> 0, message |-> "Invalid hex field"]
    ELSE LET r == from_str_radix(slice)
         IN  IF r.ok THEN [ok |-> TRUE, val |-> r.val, message |-> ""]
             ELSE [ok |-> FALSE, val |-> 0, message |-> "Invalid hex"]

(***************************************************************************)
(* FsdbgError                                                              *)
(***************************************************************************)
invalid_format(message) == [code |-> "InvalidFormat", message |-> message]

from_io_error(kind) == [code |-> "IoError", message |-> kind]

Ok(reader) == [tag |-> "Ok", reader |-> reader]

Err(error) == [tag |-> "Err", error |-> error]

Running == [tag |-> "Running"]

(***************************************************************************)
(* FileType::from_mode: the type bits are mode & 0o170000.                 *)
(***************************************************************************)
\* type bits taken under the mask 0o070000
type_bits_Mask3(mode) == ((mode \div 4096) % 8) * 4096

type_bits(mode) == ((mode \div 4096) % 16) * 4096

from_mode(mode) ==
    CASE type_bits(mode) = 32768 -> "Regular"
      [] type_bits(mode) = 16384 -> "Directory"
      [] type_bits(mode) = 40960 -> "Symlink"
      [] type_bits(mode) = 8192  -> "CharDevice"
      [] type_bits(mode) = 24576 -> "BlockDevice"
      [] type_bits(mode) = 4096  -> "Fifo"
      [] type_bits(mode) = 49152 -> "Socket"
      [] OTHER -> "Unknown"

(***************************************************************************)
(* The newc record layout on the side of the byte source: a 6-byte magic   *)
(* and thirteen 8-character hexadecimal fields, 110 bytes in all:          *)
(*   ino mode uid gid nlink mtime filesize devmajor devminor               *)
(*   rdevmajor rdevminor namesize check                                    *)
(***************************************************************************)
HEADER_LEN == 110

hex_char(d) == IF d < 10 THEN 48 + d ELSE 55 + d

RECURSIVE hex_text(_, _)
hex_text(n, width) ==
    IF width = 0 THEN << >>
    ELSE Append(hex_text(n \div 16, width - 1), hex_char(n % 16))

Hex8(n) == hex_text(n, 8)

RECURSIVE concat(_)
concat(seqs) ==
    IF Len(seqs) = 0 THEN << >>
    ELSE concat(SubSeq(seqs, 1, Len(seqs) - 1)) \o seqs[Len(seqs)]

MAGIC_NEWC == <<48, 55, 48, 55, 48, 49>>      \* "070701"
MAGIC_CRC  == <<48, 55, 48, 55, 48, 50>>      \* "070702"
MAGIC_ODC  == <<48, 55, 48, 55, 48, 55>>      \* "070707"
MAGIC_XXX  == <<88, 88, 88, 88, 88, 88>>      \* "XXXXXX"
MAGIC_BAD  == <<48, 55, 48, 55, 48, 255>>     \* not UTF-8

TRAILER == <<84, 82, 65, 73, 76, 69, 82, 33, 33, 33>>   \* "TRAILER!!!"

\* values of the fields that the samples do not vary, all different
Sample ==
    [ino |-> 9, uid |-> 1, gid |-> 2, nlink |-> 3, mtime |-> 4,
     dev_major |-> 5, dev_minor |-> 6, rdev_major |-> 7, rdev_minor |-> 8,
     check |-> 0]

\* the thirteen field texts of a well-formed header
FieldTexts(mode, filesize, namesize) ==
    << Hex8(Sample.ino), Hex8(mode), Hex8(Sample.uid), Hex8(Sample.gid),
       Hex8(Sample.nlink), Hex8(Sample.mtime), Hex8(filesize),
       Hex8(Sample.dev_major), Hex8(Sample.dev_minor),
       Hex8(Sample.rdev_major), Hex8(Sample.rdev_minor),
       Hex8(namesize), Hex8(Sample.check) >>

MkHeader(magic, texts) == magic \o concat(texts)

(***************************************************************************)
(* What the byte source may deliver.                                       *)
(***************************************************************************)
MODE_FILE == 32768 + 420       \* 0o100644
MODE_DIR == 16384 + 493        \* 0o040755
MODE_SYMLINK == 40960 + 511    \* 0o120777

\* (mode, filesize) of the sample records
ModeSizes == { <<MODE_FILE, 4>>, <<MODE_DIR, 0>>, <<MODE_SYMLINK, 1>> }

\* name fields as they lie in the archive, the terminating byte included
NameFields ==
    { <<97, NUL>>,                          \* "a"
      <<DOT, SLASH, 97, NUL>>,              \* "./a"
      <<SLASH, DOT, SLASH, 97, NUL>>,       \* "/./a"
      <<DOT, SLASH, NUL>>,                  \* "./"
      <<DOT, NUL>>,                         \* "."
      <<97>>,                               \* "a", no terminator
      << >> }                               \* namesize 0

TrailerFields ==
    { TRAILER \o <<NUL>>,
      TRAILER \o <<88>> }                   \* "TRAILER!!!X", no terminator

Contents ==
    { << >>, <<97>>, <<97, 97, 97, 97>> }     \* "", "a", "aaaa"

NameSizes == {Len(f) : f \in NameFields \cup TrailerFields}

BadTexts ==
    { <<48, 48, 48, 48, 48, 48, 48, 71>>,          \* "0000000G"
      <<48, 48, 48, 48, 48, 48, 48, BAD_BYTE>> }   \* not UTF-8

SignedText == <<PLUS, 48, 48, 48, 48, 48, 48, 49>>   \* "+0000001"

GoodHeaders ==
    { MkHeader(m, FieldTexts(ms[1], ms[2], n)) :
        m \in {MAGIC_NEWC, MAGIC_CRC}, ms \in ModeSizes, n \in NameSizes }

BadMagicHeaders ==
    { MkHeader(m, FieldTexts(MODE_FILE, 4, 2)) :
        m \in {MAGIC_ODC, MAGIC_XXX, MAGIC_BAD} }

\* a well-formed header with one field text replaced: any of the thirteen
\* fields by a text that is not hexadecimal, the mode or the namesize (the
\* 2nd and 12th field) by a text with a sign
BadFieldHeaders ==
    { MkHeader(MAGIC_NEWC,
               [FieldTexts(MODE_DIR, 0, 2) EXCEPT ![i] = t]) :
        i \in 1..13, t \in BadTexts }
    \cup
    { MkHeader(MAGIC_NEWC,
               [FieldTexts(MODE_DIR, 0, 2) EXCEPT ![i] = SignedText]) :
        i \in {2, 12} }

TrailerHeaders ==
    { MkHeader(m, FieldTexts(0, 0, Len(TRAILER) + 1)) :
        m \in {MAGIC_NEWC, MAGIC_CRC} }

Headers == GoodHeaders \cup BadMagicHeaders \cup BadFieldHeaders \cup TrailerHeaders

\* once MaxRecords records are decoded the source only has a trailer left
OfferedHeaders(decoded) ==
    IF decoded < MaxRecords THEN Headers ELSE TrailerHeaders

OfferedNames(decoded, namesize) ==
    { f \in (IF decoded < MaxRecords THEN NameFields ELSE {}) \cup TrailerFields :
        Len(f) = namesize }

OfferedContents(filesize) == { c \in Contents : Len(c) = filesize }

\* the byte counts at which a read of n bytes can find the source exhausted
ShortCounts(n) == { k \in {0, n - 1} : k >= 0 /\ k < n }

(***************************************************************************)
(* State of parse_cpio before its first read.                              *)
(***************************************************************************)
NoFields ==
    [mode |-> 0, uid |-> 0, gid |-> 0, nlink |-> 0, mtime |-> 0,
     filesize |-> 0, dev_major |-> 0, dev_minor |-> 0, rdev_major |-> 0,
     rdev_minor |-> 0, namesize |-> 0]

NoFault == [at |-> "none", kind |-> "None", avail |-> 0]

NoLookup == [asked |-> FALSE, path |-> << >>, exists |-> << >>, get |-> << >>]

NoNorm ==
    [path |-> << >>, once |-> None, twice |-> None, dot |-> None, slash |-> None]

NoCall == [op |-> "none"]

\* VerificationReport::default(): no report is being made
NoReport == [results |-> << >>, artifact_type |-> ""]

EmptyMap == [k \in {} |-> 0]

Init ==
    /\ pc = "read_header"
    /\ offset = 0
    /\ header = << >>
    /\ fields = NoFields
    /\ name_buf = << >>
    /\ name = << >>
    /\ content = << >>
    /\ entries = << >>
    /\ entry_map = EmptyMap
    /\ result = Running
    /\ fault = NoFault
    /\ archive = << >>
    /\ lookup = NoLookup
    /\ norm = NoNorm
    /\ call = NoCall
    /\ report = NoReport

\* the CpioReader that Ok(Self { entries, entry_map }) returns
Reader == [entries |-> entries, entry_map |-> entry_map]

\* the locals of the loop body go out of scope at the end of an iteration
\* and when the function returns
DropLocals ==
    /\ header' = << >>
    /\ fields' = NoFields
    /\ name_buf' = << >>
    /\ name' = << >>
    /\ content' = << >>

\* a read_exact whose end of stream leaves the loop, as the header read does
ReadFails_Break(at, n, kind) ==
    /\ n > 0
    /\ \E k \in (IF kind = "UnexpectedEof" THEN ShortCounts(n) ELSE {0}) :
          /\ fault' = [at |-> at, kind |-> kind, avail |-> k]
          /\ offset' = offset + k
    /\ result' = IF kind = "UnexpectedEof"
                 THEN Ok(Reader) ELSE Err(from_io_error(kind))
    /\ pc' = "returned"
    /\ DropLocals

\* a failed read_exact that is swallowed: the loop starts its next iteration
ReadFails_Continue(at, n, kind) ==
    /\ n > 0
    /\ fault' = [at |-> at, kind |-> kind, avail |-> 0]
    /\ UNCHANGED <<offset, result>>
    /\ pc' = "read_header"
    /\ DropLocals

\* `?` on a failed read_exact: the io::Error becomes the function's error
ReadFails(at, n, kind) ==
    /\ n > 0
    /\ \E k \in (IF kind = "UnexpectedEof" THEN ShortCounts(n) ELSE {0}) :
          /\ fault' = [at |-> at, kind |-> kind, avail |-> k]
          /\ offset' = offset + k
    /\ result' = Err(from_io_error(kind))
    /\ pc' = "returned"
    /\ DropLocals

(***************************************************************************)
(* loop { let mut header = [0u8; 110]; match reader.read_exact(..) {..}    *)
(* A header read that finds the source exhausted leaves the loop; any      *)
(* other read error is returned.                                           *)
(***************************************************************************)
ReadHeader ==
    /\ pc = "read_header"
    /\ \/ /\ \E h \in OfferedHeaders(Len(entries)) : header' = h
          /\ offset' = offset + HEADER_LEN
          /\ pc' = "decode_header"
          /\ UNCHANGED <<fields, name_buf, name, content, result, fault>>
       \/ /\ \E k \in ShortCounts(HEADER_LEN) :
                /\ fault' = [at |-> "header", kind |-> "UnexpectedEof", avail |-> k]
                /\ offset' = offset + k
          /\ result' = Ok(Reader)
          /\ pc' = "returned"
          /\ DropLocals
       \/ ReadFails("header", HEADER_LEN, "Other")
    /\ UNCHANGED <<entries, entry_map, archive, lookup, norm, call, report>>

(***************************************************************************)
(* Verify magic, then parse the header fields in the order of the code.    *)
(***************************************************************************)
\* a magic check that compares the first five characters only
magic_ok_Prefix(magic) == SubSeq(magic, 1, 5) = SubSeq(MAGIC_NEWC, 1, 5)

magic_ok(magic) == magic = MAGIC_NEWC \/ magic = MAGIC_CRC

FieldOrder ==
    << "mode", "uid", "gid", "nlink", "mtime", "filesize", "dev_major",
       "dev_minor", "rdev_major", "rdev_minor", "namesize" >>

\* the fields read as if mode were the first field behind the magic
header_fields_NoIno(h) ==
    [mode       |-> parse_hex(Slice(h, 6, 14)),
     uid        |-> parse_hex(Slice(h, 14, 22)),
     gid        |-> parse_hex(Slice(h, 22, 30)),
     nlink      |-> parse_hex(Slice(h, 30, 38)),
     mtime      |-> parse_hex(Slice(h, 38, 46)),
     filesize   |-> parse_hex(Slice(h, 46, 54)),
     dev_major  |-> parse_hex(Slice(h, 54, 62)),
     dev_minor  |-> parse_hex(Slice(h, 62, 70)),
     rdev_major |-> parse_hex(Slice(h, 70, 78)),
     rdev_minor |-> parse_hex(Slice(h, 78, 86)),
     namesize   |-> parse_hex(Slice(h, 86, 94))]

header_fields(h) ==
    [mode       |-> parse_hex(Slice(h, 14, 22)),
     uid        |-> parse_hex(Slice(h, 22, 30)),
     gid        |-> parse_hex(Slice(h, 30, 38)),
     nlink      |-> parse_hex(Slice(h, 38, 46)),
     mtime      |-> parse_hex(Slice(h, 46, 54)),
     filesize   |-> parse_hex(Slice(h, 54, 62)),
     dev_major  |-> parse_hex(Slice(h, 62, 70)),
     dev_minor  |-> parse_hex(Slice(h, 70, 78)),
     rdev_major |-> parse_hex(Slice(h, 78, 86)),
     rdev_minor |-> parse_hex(Slice(h, 86, 94)),
     namesize   |-> parse_hex(Slice(h, 94, 102))]

\* the result of the header checks: the fields, or the first error
decode_header(h) ==
    LET magic  == Slice(h, 0, 6)
        parsed == header_fields(h)
        bad    == {i \in 1..Len(FieldOrder) : ~parsed[FieldOrder[i]].ok}
        first  == CHOOSE i \in bad : \A j \in bad : i <= j
    IN  IF ~is_utf8(magic)
        THEN Err(invalid_format("Invalid CPIO header: not UTF-8"))
        ELSE IF ~magic_ok(magic)
        THEN Err(invalid_format("Invalid CPIO magic"))
        ELSE IF bad # {}
        THEN Err(invalid_format(parsed[FieldOrder[first]].message))
        ELSE [tag |-> "Ok",
              fields |-> [f \in DOMAIN parsed |-> parsed[f].val]]

DecodeHeader ==
    /\ pc = "decode_header"
    /\ LET d == decode_header(header)
       IN  IF d.tag = "Ok"
           THEN /\ fields' = d.fields
                /\ pc' = "read_name"
                /\ UNCHANGED result
                /\ UNCHANGED <<header, name_buf, name, content>>
           ELSE /\ result' = d
                /\ pc' = "returned"
                /\ DropLocals
    /\ UNCHANGED <<offset, entries, entry_map, fault, archive, lookup, norm, call, report>>

(***************************************************************************)
(* let mut name_buf = vec![0u8; namesize]; reader.read_exact(..)?;         *)
(* let name = from_utf8_lossy(&name_buf[..namesize.saturating_sub(1)])     *)
(***************************************************************************)
ReadName ==
    /\ pc = "read_name"
    /\ \/ /\ \E nb \in OfferedNames(Len(entries), fields.namesize) :
                /\ name_buf' = nb
                /\ name' = from_utf8_lossy(
                               Slice(nb, 0, saturating_sub(fields.namesize, 1)))
          /\ offset' = offset + fields.namesize
          /\ pc' = "skip_name_padding"
          /\ UNCHANGED <<header, fields, content, result, fault>>
       \/ \E kind \in {"UnexpectedEof", "Other"} :
             ReadFails("name", fields.namesize, kind)
    /\ UNCHANGED <<entries, entry_map, archive, lookup, norm, call, report>>

(***************************************************************************)
(* Padding after the name: header + name aligned to 4 bytes.               *)
(***************************************************************************)
\* name padding computed from the length of the name alone
name_padding_NameOnly(namesize) == (4 - (namesize % 4)) % 4

name_padding(namesize) == (4 - ((HEADER_LEN + namesize) % 4)) % 4

SkipNamePadding ==
    /\ pc = "skip_name_padding"
    /\ LET padding == name_padding(fields.namesize)
       IN  \/ /\ offset' = offset + padding
              /\ pc' = "check_trailer"
              /\ UNCHANGED <<header, fields, name_buf, name, content, result, fault>>
           \/ \E kind \in {"UnexpectedEof", "Other"} :
                ReadFails("name_padding", padding, kind)
    /\ UNCHANGED <<entries, entry_map, archive, lookup, norm, call, report>>

(***************************************************************************)
(* if name == "TRAILER!!!" { break; }                                      *)
(***************************************************************************)
\* a trailer check on the name with its terminator
is_trailer_Terminated(n) == n = TRAILER \o <<NUL>>

is_trailer(n) == n = TRAILER

CheckTrailer ==
    /\ pc = "check_trailer"
    /\ IF is_trailer(name)
       THEN /\ result' = Ok(Reader)
            /\ pc' = "returned"
            /\ DropLocals
       ELSE /\ pc' = "read_content"
            /\ UNCHANGED <<header, fields, name_buf, name, content, result>>
    /\ UNCHANGED <<offset, entries, entry_map, fault, archive, lookup, norm, call, report>>

(***************************************************************************)
(* let mut content = vec![0u8; filesize as usize]; reader.read_exact(..)?  *)
(***************************************************************************)
ReadContent ==
    /\ pc = "read_content"
    /\ \/ /\ \E c \in OfferedContents(fields.filesize) : content' = c
          /\ offset' = offset + fields.filesize
          /\ pc' = "skip_content_padding"
          /\ UNCHANGED <<header, fields, name_buf, name, result, fault>>
       \/ \E kind \in {"UnexpectedEof", "Other"} :
             ReadFails("content", fields.filesize, kind)
    /\ UNCHANGED <<entries, entry_map, archive, lookup, norm, call, report>>

(***************************************************************************)
(* Padding after the content: aligned to 4 bytes.                          *)
(***************************************************************************)
content_padding(filesize) == (4 - (filesize % 4)) % 4

SkipContentPadding ==
    /\ pc = "skip_content_padding"
    /\ LET padding == content_padding(fields.filesize)
       IN  \/ /\ offset' = offset + padding
              /\ pc' = "push_entry"
              /\ archive' = Append(archive, name_buf)
              /\ UNCHANGED <<header, fields, name_buf, name, content, result, fault>>
           \/ /\ \E kind \in {"UnexpectedEof", "Other"} :
                    ReadFails("content_padding", padding, kind)
              /\ UNCHANGED archive
    /\ UNCHANGED <<entries, entry_map, lookup, norm, call, report>>

(***************************************************************************)
(* Build the CpioEntry, index it under its normalized name unless that is  *)
(* empty, and push it.                                                     *)
(***************************************************************************)
\* an entry that keeps the content of every record that has some
new_entry_KeepContent(n, f, c) ==
    LET file_type == from_mode(f.mode)
    IN  [path        |-> n,
         size        |-> f.filesize,
         mode        |-> f.mode,
         file_type   |-> file_type,
         link_target |-> IF Len(c) > 0
                         THEN Some(from_utf8_lossy(c)) ELSE None,
         uid         |-> f.uid,
         gid         |-> f.gid,
         nlink       |-> f.nlink,
         mtime       |-> f.mtime,
         dev_major   |-> f.dev_major,
         dev_minor   |-> f.dev_minor,
         rdev_major  |-> f.rdev_major,
         rdev_minor  |-> f.rdev_minor]

\* an entry whose size is kept for regular files only
new_entry_RegularSize(n, f, c) ==
    LET file_type == from_mode(f.mode)
    IN  [path        |-> n,
         size        |-> IF file_type = "Regular" THEN f.filesize ELSE 0,
         mode        |-> f.mode,
         file_type   |-> file_type,
         link_target |-> IF file_type = "Symlink"
                         THEN Some(from_utf8_lossy(c)) ELSE None,
         uid         |-> f.uid,
         gid         |-> f.gid,
         nlink       |-> f.nlink,
         mtime       |-> f.mtime,
         dev_major   |-> f.dev_major,
         dev_minor   |-> f.dev_minor,
         rdev_major  |-> f.rdev_major,
         rdev_minor  |-> f.rdev_minor]

new_entry(n, f, c) ==
    LET file_type == from_mode(f.mode)
    IN  [path        |-> n,
         size        |-> f.filesize,
         mode        |-> f.mode,
         file_type   |-> file_type,
         link_target |-> IF file_type = "Symlink"
                         THEN Some(from_utf8_lossy(c)) ELSE None,
         uid         |-> f.uid,
         gid         |-> f.gid,
         nlink       |-> f.nlink,
         mtime       |-> f.mtime,
         dev_major   |-> f.dev_major,
         dev_minor   |-> f.dev_minor,
         rdev_major  |-> f.rdev_major,
         rdev_minor  |-> f.rdev_minor]

\* an insert that keeps the value of a key already present
map_insert_KeepFirst(m, k, v) ==
    [x \in DOMAIN m \cup {k} |-> IF x \in DOMAIN m THEN m[x] ELSE v]

\* HashMap::insert
map_insert(m, k, v) ==
    [x \in DOMAIN m \cup {k} |-> IF x = k THEN v ELSE m[x]]

\* an indexing without the is_empty test
index_entry_Always(m, es, n) == map_insert(m, normalize_path(n), Len(es))

\* entry_map after the record named n, when es are the entries before it
index_entry(m, es, n) ==
    LET normalized_name == normalize_path(n)
    IN  IF Len(normalized_name) # 0
        THEN map_insert(m, normalized_name, Len(es))
        ELSE m

\* a push that leaves out the entries that are not indexed
push_Indexed(es, e) ==
    IF Len(normalize_path(e.path)) # 0 THEN Append(es, e) ELSE es

push(es, e) == Append(es, e)

PushEntry ==
    /\ pc = "push_entry"
    /\ entry_map' = index_entry(entry_map, entries, name)
    /\ entries' = push(entries, new_entry(name, fields, content))
    /\ pc' = "read_header"
    /\ DropLocals
    /\ UNCHANGED <<offset, result, fault, archive, lookup, norm, call, report>>

(***************************************************************************)
(* CpioReader::exists and CpioReader::get                                  *)
(***************************************************************************)
exists(reader, path) ==
    LET normalized == normalize_path(path)
    IN  normalized \in DOMAIN reader.entry_map

get(reader, path) ==
    LET normalized == normalize_path(path)
    IN  IF normalized \in DOMAIN reader.entry_map
        THEN Some(reader.entries[reader.entry_map[normalized] + 1])
        ELSE None

\* the three spellings of a query: q, "./" + q, "/" + q
Spellings(q) == << q, <<DOT, SLASH>> \o q, <<SLASH>> \o q >>

\* the paths a caller asks about: names of the sample records and others
Queries ==
    { << >>, <<97>>, <<DOT, SLASH, 97>>, <<SLASH, DOT, SLASH, 97>>,
      <<DOT, SLASH>>, <<DOT>>, <<SLASH>>, <<98>> }

\* a caller asks the returned reader about a path in its three spellings
Lookup ==
    /\ pc = "returned"
    /\ result.tag = "Ok"
    /\ ~lookup.asked
    /\ \E q \in Queries :
          lookup' = [asked  |-> TRUE,
                     path   |-> q,
                     exists |-> [i \in 1..3 |-> exists(result.reader, Spellings(q)[i])],
                     get    |-> [i \in 1..3 |-> get(result.reader, Spellings(q)[i])]]
    /\ UNCHANGED <<pc, offset, header, fields, name_buf, name, content, entries,
                   entry_map, result, fault, archive, norm, call, report>>

Next ==
    \/ ReadHeader
    \/ DecodeHeader
    \/ ReadName
    \/ SkipNamePadding
    \/ CheckTrailer
    \/ ReadContent
    \/ SkipContentPadding
    \/ PushEntry
    \/ Lookup

Spec == Init /\ [][Next]_vars

(***************************************************************************)
(* The decode alone, from its call to its return.  The byte source is      *)
(* finite: it has at most MaxRecords records before the trailer or its end.*)
(***************************************************************************)
NextDecode ==
    \/ ReadHeader
    \/ DecodeHeader
    \/ ReadName
    \/ SkipNamePadding
    \/ CheckTrailer
    \/ ReadContent
    \/ SkipContentPadding
    \/ PushEntry

SpecDecode == Init /\ [][NextDecode]_vars

(***************************************************************************)
(* normalize_path on its own: each string of Paths is normalized, the      *)
(* result is normalized again, and the string is normalized behind a       *)
(* leading "./" and behind a leading "/".                                  *)
(***************************************************************************)
InitNorm ==
    /\ pc = "normalize"
    /\ offset = 0
    /\ header = << >>
    /\ fields = NoFields
    /\ name_buf = << >>
    /\ name = << >>
    /\ content = << >>
    /\ entries = << >>
    /\ entry_map = EmptyMap
    /\ result = Running
    /\ fault = NoFault
    /\ archive = << >>
    /\ lookup = NoLookup
    /\ \E p \in Paths : norm = [NoNorm EXCEPT !.path = p]
    /\ call = NoCall
    /\ report = NoReport

NormalizeOnce ==
    /\ pc = "normalize"
    /\ norm.once = None
    /\ norm' = [norm EXCEPT !.once = Some(normalize_path(norm.path))]
    /\ UNCHANGED <<pc, offset, header, fields, name_buf, name, content, entries,
                   entry_map, result, fault, archive, lookup, call, report>>

NormalizeTwice ==
    /\ pc = "normalize"
    /\ norm.once # None
    /\ norm.twice = None
    /\ norm' = [norm EXCEPT !.twice = Some(normalize_path(norm.once[1]))]
    /\ UNCHANGED <<pc, offset, header, fields, name_buf, name, content, entries,
                   entry_map, result, fault, archive, lookup, call, report>>

NormalizeSpellings ==
    /\ pc = "normalize"
    /\ norm.dot = None
    /\ norm' = [norm EXCEPT
                  !.dot = Some(normalize_path(Spellings(norm.path)[2])),
                  !.slash = Some(normalize_path(Spellings(norm.path)[3]))]
    /\ UNCHANGED <<pc, offset, header, fields, name_buf, name, content, entries,
                   entry_map, result, fault, archive, lookup, call, report>>

NextNorm ==
    \/ NormalizeOnce
    \/ NormalizeTwice
    \/ NormalizeSpellings

SpecNorm == InitNorm /\ [][NextNorm]_vars

(***************************************************************************)
(* std::path::Path::parent on a Unix path, as resolve_symlink_target calls *)
(* it: the path is walked from the back, component by component; empty     *)
(* components and "." components are passed over, a leading "." and the    *)
(* root are components of their own.                                       *)
(***************************************************************************)
has_root(path) == Len(path) > 0 /\ path[1] = SLASH

include_cur_dir(path, root) ==
    /\ ~root
    /\ \/ path = <<DOT>>
       \/ Len(path) >= 2 /\ path[1] = DOT /\ path[2] = SLASH

len_before_body(path, root) ==
    (IF root THEN 1 ELSE 0) + (IF include_cur_dir(path, root) THEN 1 ELSE 0)

\* the last component of the body: the bytes it takes and whether it counts
parse_next_component_back(path, root) ==
    LET body == Drop(path, len_before_body(path, root))
        seps == {i \in 1..Len(body) : body[i] = SLASH}
        comp == IF seps = {} THEN body
                ELSE Drop(body, CHOOSE i \in seps : \A j \in seps : j <= i)
    IN  [size |-> Len(comp) + (IF seps = {} THEN 0 ELSE 1),
         some |-> comp # << >> /\ comp # <<DOT>>]

RECURSIVE next_back(_, _)
\* the component taken from the back, what is left, and the state of the walk
next_back(path, root) ==
    IF Len(path) > len_before_body(path, root)
    THEN LET c    == parse_next_component_back(path, root)
             rest == SubSeq(path, 1, Len(path) - c.size)
         IN  IF c.some
             THEN [comp |-> "Normal", path |-> rest, back |-> "Body"]
             ELSE next_back(rest, root)
    ELSE IF root
    THEN [comp |-> "RootDir", path |-> SubSeq(path, 1, Len(path) - 1),
          back |-> "Prefix"]
    ELSE IF include_cur_dir(path, root)
    THEN [comp |-> "CurDir", path |-> SubSeq(path, 1, Len(path) - 1),
          back |-> "Prefix"]
    ELSE [comp |-> "None", path |-> path, back |-> "Done"]

RECURSIVE trim_right(_, _)
trim_right(path, root) ==
    IF Len(path) > len_before_body(path, root)
    THEN LET c == parse_next_component_back(path, root)
         IN  IF c.some THEN path
             ELSE trim_right(SubSeq(path, 1, Len(path) - c.size), root)
    ELSE path

parent(path) ==
    LET root == has_root(path)
        last == next_back(path, root)
    IN  IF last.comp \in {"Normal", "CurDir"}
        THEN Some(IF last.back = "Body"
                  THEN trim_right(last.path, root) ELSE last.path)
        ELSE None

(***************************************************************************)
(* CpioReader::resolve_symlink_target                                      *)
(***************************************************************************)
RECURSIVE split(_, _)
\* s.split(sep): the pieces between the separators, empty ones included
split(s, sep) ==
    LET seps == {i \in 1..Len(s) : s[i] = sep}
    IN  IF seps = {} THEN <<s>>
        ELSE LET i == CHOOSE k \in seps : \A j \in seps : k <= j
             IN  <<SubSeq(s, 1, i - 1)>> \o split(Drop(s, i), sep)

RECURSIVE join(_, _)
join(parts, sep) ==
    IF Len(parts) = 0 THEN << >>
    ELSE IF Len(parts) = 1 THEN parts[1]
    ELSE parts[1] \o <<sep>> \o join(Tail(parts), sep)

\* a step in which ".." is an ordinary name
resolve_part_PushDotDot(components, part) ==
    IF part = <<DOT>> \/ part = << >> THEN components
    ELSE Append(components, part)

\* one step of the loop over target.split('/')
resolve_part(components, part) ==
    IF part = <<DOT>> \/ part = << >> THEN components
    ELSE IF part = <<DOT, DOT>>
    THEN SubSeq(components, 1, saturating_sub(Len(components), 1))
    ELSE Append(components, part)

RECURSIVE resolve_parts(_, _)
resolve_parts(components, parts) ==
    IF Len(parts) = 0 THEN components
    ELSE resolve_parts(resolve_part(components, Head(parts)), Tail(parts))

\* an absolute target that is made relative to the link's directory
resolve_symlink_target_AlwaysRelative(link_path, target) ==
    LET p        == parent(link_path)
        link_dir == IF p = None THEN << >> ELSE p[1]
        start    == IF link_dir = << >> THEN << >> ELSE split(link_dir, SLASH)
    IN  join(resolve_parts(start, split(target, SLASH)), SLASH)

resolve_symlink_target(link_path, target) ==
    IF StartsWith(target, <<SLASH>>)
    THEN trim_start_matches(target, <<SLASH>>)
    ELSE LET p        == parent(link_path)
             link_dir == IF p = None THEN << >> ELSE p[1]
             start    == IF link_dir = << >> THEN << >>
                         ELSE split(link_dir, SLASH)
         IN  join(resolve_parts(start, split(target, SLASH)), SLASH)

(***************************************************************************)
(* No decode is running: the state of parse_cpio's variables when one of   *)
(* the other functions is called on its own.                               *)
(***************************************************************************)
NoDecode ==
    /\ offset = 0
    /\ header = << >>
    /\ fields = NoFields
    /\ name_buf = << >>
    /\ name = << >>
    /\ content = << >>
    /\ entries = << >>
    /\ entry_map = EmptyMap
    /\ result = Running
    /\ fault = NoFault
    /\ archive = << >>
    /\ lookup = NoLookup
    /\ norm = NoNorm
    /\ report = NoReport

(***************************************************************************)
(* FileType::from_mode as parse_cpio uses it: two entries are built from   *)
(* two header modes, with their own sizes and names.                       *)
(***************************************************************************)
\* every value of the four type bits, under some permission bits, and with
\* a bit above the type bits clear or set
Modes ==
    { h * 65536 + t * 4096 + p : h \in {0, 1}, t \in 0..15, p \in {0, 420, 4095} }

InitMode ==
    /\ pc = "from_mode"
    /\ NoDecode
    /\ \E a \in Modes, b \in Modes, size \in {0, 4}, n \in {<<97>>, <<98>>} :
          call = [op    |-> "from_mode",
                  a     |-> [mode |-> a, size |-> 0, name |-> <<97>>],
                  b     |-> [mode |-> b, size |-> size, name |-> n],
                  kinds |-> None]

EntryKinds ==
    /\ pc = "from_mode"
    /\ call.kinds = None
    /\ LET entry(r) == new_entry(r.name,
                                 [NoFields EXCEPT !.mode = r.mode,
                                                  !.filesize = r.size],
                                 << >>)
       IN  call' = [call EXCEPT
                      !.kinds = Some(<<entry(call.a).file_type,
                                       entry(call.b).file_type>>)]
    /\ UNCHANGED <<pc, offset, header, fields, name_buf, name, content, entries,
                   entry_map, result, fault, archive, lookup, norm, report>>

NextMode == EntryKinds

SpecMode == InitMode /\ [][NextMode]_vars

(***************************************************************************)
(* The two padding rules of parse_cpio on their own: a record with         *)
(* a namesize and a filesize of 0..MaxSize starts at an aligned offset;    *)
(* the name and its padding are skipped, then the content and its padding. *)
(***************************************************************************)
InitPad ==
    /\ pc = "name_padding"
    /\ NoDecode
    /\ \E start \in {0, 4}, namesize \in 0..MaxSize, filesize \in 0..MaxSize :
          call = [op       |-> "padding",
                  start    |-> start,
                  namesize |-> namesize,
                  filesize |-> filesize,
                  at       |-> start + HEADER_LEN + namesize,
                  p        |-> None,
                  q        |-> None]

PadName ==
    /\ pc = "name_padding"
    /\ LET padding == name_padding(call.namesize)
       IN  call' = [call EXCEPT !.p = Some(padding),
                                !.at = call.at + padding + call.filesize]
    /\ pc' = "content_padding"
    /\ UNCHANGED <<offset, header, fields, name_buf, name, content, entries,
                   entry_map, result, fault, archive, lookup, norm, report>>

PadContent ==
    /\ pc = "content_padding"
    /\ LET padding == content_padding(call.filesize)
       IN  call' = [call EXCEPT !.q = Some(padding),
                                !.at = call.at + padding]
    /\ pc' = "next_header"
    /\ UNCHANGED <<offset, header, fields, name_buf, name, content, entries,
                   entry_map, result, fault, archive, lookup, norm, report>>

NextPad ==
    \/ PadName
    \/ PadContent

SpecPad == InitPad /\ [][NextPad]_vars

(***************************************************************************)
(* resolve_symlink_target on its own: every link path and every target of  *)
(* Paths, and the paths of the documented examples.                        *)
(***************************************************************************)
LinkPaths == Paths \cup { <<97, SLASH, 98, SLASH, 108>> }          \* "a/b/l"

LinkTargets ==
    Paths \cup { <<SLASH, 120, SLASH, 121>>,                        \* "/x/y"
                 <<DOT, DOT, SLASH, 99>> }                          \* "../c"

InitResolve ==
    /\ pc = "resolve"
    /\ NoDecode
    /\ \E link_path \in LinkPaths, target \in LinkTargets :
          call = [op        |-> "resolve",
                  link_path |-> link_path,
                  target    |-> target,
                  resolved  |-> None]

Resolve ==
    /\ pc = "resolve"
    /\ call.resolved = None
    /\ call' = [call EXCEPT
                  !.resolved = Some(resolve_symlink_target(call.link_path,
                                                           call.target))]
    /\ UNCHANGED <<pc, offset, header, fields, name_buf, name, content, entries,
                   entry_map, result, fault, archive, lookup, norm, report>>

NextResolve == Resolve

SpecResolve == InitResolve /\ [][NextResolve]_vars

(***************************************************************************)
(* CpioEntry::is_file / is_dir / is_symlink and the filters of CpioReader  *)
(***************************************************************************)
is_dir(entry) == entry.file_type = "Directory"

is_file(entry) == entry.file_type = "Regular"

is_symlink(entry) == entry.file_type = "Symlink"

\* the filter the comment on files() describes: everything but directories
files_NotDirectories(reader) == SelectSeq(reader.entries, LAMBDA e : ~is_dir(e))

files(reader) == SelectSeq(reader.entries, is_file)

directories(reader) == SelectSeq(reader.entries, is_dir)

symlinks(reader) == SelectSeq(reader.entries, is_symlink)

(***************************************************************************)
(* CpioReader::symlink_target_exists                                       *)
(***************************************************************************)
\* a check that looks the target up as it is written, without resolving it
symlink_target_exists_Unresolved(reader, entry) ==
    IF entry.link_target = None THEN FALSE
    ELSE exists(reader, entry.link_target[1])

\* a check that follows a second link: the entry found must itself resolve
symlink_target_exists_Follow(reader, entry) ==
    IF entry.link_target = None THEN FALSE
    ELSE LET resolved == resolve_symlink_target(entry.path, entry.link_target[1])
             found    == get(reader, resolved)
         IN  /\ found # None
             /\ found[1].link_target # None
                   => exists(reader,
                             resolve_symlink_target(found[1].path,
                                                    found[1].link_target[1]))

symlink_target_exists(reader, entry) ==
    IF entry.link_target = None THEN FALSE
    ELSE LET resolved == resolve_symlink_target(entry.path, entry.link_target[1])
         IN  exists(reader, resolved)

(***************************************************************************)
(* A caller of the returned reader: it checks the target of one entry, or  *)
(* it lists the files, directories and symlinks, and may list them again.  *)
(* The entry checked is one of the reader's or one the caller has made     *)
(* (CpioEntry and its fields are public).                                  *)
(***************************************************************************)
CallerPaths ==
    { <<120>>, <<DOT, SLASH, 120>>, <<97, SLASH, 120>> }     \* "x", "./x", "a/x"

CallerTargets ==
    { None, Some(<<97>>), Some(<<DOT>>), Some(<<SLASH, 97>>),
      Some(<<DOT, DOT, SLASH, 97>>), Some(<<98>>) }

CallerEntries ==
    { [new_entry(p, [NoFields EXCEPT !.mode = MODE_SYMLINK], << >>)
          EXCEPT !.link_target = t] : p \in CallerPaths, t \in CallerTargets }

CheckedEntries(reader) ==
    {reader.entries[i] : i \in 1..Len(reader.entries)} \cup CallerEntries

CheckSymlink ==
    /\ pc = "returned"
    /\ result.tag = "Ok"
    /\ call = NoCall
    /\ \E entry \in CheckedEntries(result.reader) :
          call' = [op     |-> "symlink_target_exists",
                   entry  |-> entry,
                   answer |-> symlink_target_exists(result.reader, entry)]
    /\ UNCHANGED <<pc, offset, header, fields, name_buf, name, content, entries,
                   entry_map, result, fault, archive, lookup, norm, report>>

Listing(reader) ==
    [files       |-> files(reader),
     directories |-> directories(reader),
     symlinks    |-> symlinks(reader)]

Enumerate ==
    /\ pc = "returned"
    /\ result.tag = "Ok"
    /\ call = NoCall
    /\ call' = [op |-> "enumerate", first |-> Listing(result.reader),
                again |-> None]
    /\ UNCHANGED <<pc, offset, header, fields, name_buf, name, content, entries,
                   entry_map, result, fault, archive, lookup, norm, report>>

EnumerateAgain ==
    /\ pc = "returned"
    /\ call.op = "enumerate"
    /\ call.again = None
    /\ call' = [call EXCEPT !.again = Some(Listing(result.reader))]
    /\ UNCHANGED <<pc, offset, header, fields, name_buf, name, content, entries,
                   entry_map, result, fault, archive, lookup, norm, report>>

NextQuery ==
    \/ ReadHeader
    \/ DecodeHeader
    \/ ReadName
    \/ SkipNamePadding
    \/ CheckTrailer
    \/ ReadContent
    \/ SkipContentPadding
    \/ PushEntry
    \/ CheckSymlink
    \/ Enumerate
    \/ EnumerateAgain

SpecQuery == Init /\ [][NextQuery]_vars

(***************************************************************************)
(* CpioEntry::permissions and CpioEntry::mode_string                       *)
(***************************************************************************)
\* permission bits without the setuid, setgid and sticky bits
permissions_Low9(entry) == entry.mode % 512

\* self.mode & 0o7777
permissions(entry) == entry.mode % 4096

\* perms & mask != 0, for a mask of one bit
has_bit(perms, mask) == (perms \div mask) % 2 = 1

type_char(file_type) ==
    CASE file_type = "Directory"   -> 100      \* 'd'
      [] file_type = "Symlink"     -> 108      \* 'l'
      [] file_type = "CharDevice"  -> 99       \* 'c'
      [] file_type = "BlockDevice" -> 98       \* 'b'
      [] file_type = "Fifo"        -> 112      \* 'p'
      [] file_type = "Socket"      -> 115      \* 's'
      [] OTHER                     -> MINUS    \* '-'

\* the character of an execute position: special is the setuid, setgid or
\* sticky mask, lower and upper the letters that show it
exec_char(perms, special, exec, lower, upper) ==
    IF has_bit(perms, special)
    THEN (IF has_bit(perms, exec) THEN lower ELSE upper)
    ELSE IF has_bit(perms, exec) THEN 120 ELSE MINUS

mode_string(entry) ==
    LET perms == permissions(entry)
    IN  << type_char(entry.file_type),
           IF has_bit(perms, 256) THEN 114 ELSE MINUS,
           IF has_bit(perms, 128) THEN 119 ELSE MINUS,
           exec_char(perms, 2048, 64, 115, 83),
           IF has_bit(perms, 32) THEN 114 ELSE MINUS,
           IF has_bit(perms, 16) THEN 119 ELSE MINUS,
           exec_char(perms, 1024, 8, 115, 83),
           IF has_bit(perms, 4) THEN 114 ELSE MINUS,
           IF has_bit(perms, 2) THEN 119 ELSE MINUS,
           exec_char(perms, 512, 1, 116, 84) >>

\* an entry of every kind with every value of the twelve permission bits
StringModes == { t * 4096 + p : t \in {0, 1, 2, 4, 6, 8, 10, 12}, p \in 0..4095 }

InitString ==
    /\ pc = "permissions"
    /\ NoDecode
    /\ \E m \in StringModes :
          call = [op          |-> "mode_string",
                  entry       |-> new_entry(<<97>>, [NoFields EXCEPT !.mode = m],
                                            << >>),
                  permissions |-> None,
                  text        |-> None]

Permissions ==
    /\ pc = "permissions"
    /\ call' = [call EXCEPT !.permissions = Some(permissions(call.entry))]
    /\ pc' = "mode_string"
    /\ UNCHANGED <<offset, header, fields, name_buf, name, content, entries,
                   entry_map, result, fault, archive, lookup, norm, report>>

ModeString ==
    /\ pc = "mode_string"
    /\ call' = [call EXCEPT !.text = Some(mode_string(call.entry))]
    /\ pc' = "formatted"
    /\ UNCHANGED <<offset, header, fields, name_buf, name, content, entries,
                   entry_map, result, fault, archive, lookup, norm, report>>

NextString ==
    \/ Permissions
    \/ ModeString

SpecString == InitString /\ [][NextString]_vars

(***************************************************************************)
(* A caller checks the same symlink under two spellings of its path: p and *)
(* "./" + p, with the same relative target.                                *)
(***************************************************************************)
AliasPaths == { <<120>>, <<97, SLASH, 120>> }                  \* "x", "a/x"

AliasTargets ==
    { <<DOT>>, <<DOT, DOT>>, <<97>>, <<DOT, DOT, SLASH, 97>> } \* . .. a ../a

\* a symlink entry as a caller or a decode builds it
symlink_entry(path, target) ==
    new_entry(path, [NoFields EXCEPT !.mode = MODE_SYMLINK,
                                     !.filesize = Len(target)], target)

\* what one check computes: the resolved path and the answer
check_of(reader, entry) ==
    [resolved |-> resolve_symlink_target(entry.path, entry.link_target[1]),
     answer   |-> symlink_target_exists(reader, entry)]

CheckSpellings ==
    /\ pc = "returned"
    /\ result.tag = "Ok"
    /\ call = NoCall
    /\ \E p \in AliasPaths, t \in AliasTargets :
          call' = [op     |-> "spellings",
                   path   |-> p,
                   target |-> t,
                   plain  |-> check_of(result.reader, symlink_entry(p, t)),
                   dotted |-> check_of(result.reader,
                                       symlink_entry(<<DOT, SLASH>> \o p, t))]
    /\ UNCHANGED <<pc, offset, header, fields, name_buf, name, content, entries,
                   entry_map, result, fault, archive, lookup, norm, report>>

NextAlias ==
    \/ ReadHeader
    \/ DecodeHeader
    \/ ReadName
    \/ SkipNamePadding
    \/ CheckTrailer
    \/ ReadContent
    \/ SkipContentPadding
    \/ PushEntry
    \/ CheckSpellings

SpecAlias == Init /\ [][NextAlias]_vars

(***************************************************************************)
(* checklist::CheckResult and checklist::VerificationReport                *)
(***************************************************************************)
pass(item, category) ==
    [item |-> item, passed |-> TRUE, message |-> None, category |-> category]

fail(item, category, message) ==
    [item |-> item, passed |-> FALSE, message |-> Some(message),
     category |-> category]

new(artifact_type) == [results |-> << >>, artifact_type |-> artifact_type]

add(r, check) == [r EXCEPT !.results = Append(r.results, check)]

passed(r) == Len(SelectSeq(r.results, LAMBDA c : c.passed))

failed(r) == Len(SelectSeq(r.results, LAMBDA c : ~c.passed))

total(r) == Len(r.results)

\* a report that needs a passed result to be a success
is_success_SomePassed(r) ==
    /\ r.results # << >>
    /\ \A i \in 1..Len(r.results) : r.results[i].passed

is_success(r) == \A i \in 1..Len(r.results) : r.results[i].passed

\* the categories in the order of their keys 0..10
CategoryOrder ==
    << "Binary", "Unit", "Symlink", "EtcFile", "UdevRule", "Directory",
       "Library", "KernelModule", "License", "Forbidden", "Other" >>

\* BTreeMap from key to (category, results), its values in key order
by_category(r) ==
    LET group(k) ==
            << CategoryOrder[k],
               SelectSeq(r.results, LAMBDA c : c.category = CategoryOrder[k]) >>
    IN  SelectSeq([k \in 1..Len(CategoryOrder) |-> group(k)],
                  LAMBDA g : g[2] # << >>)

\* the results a checklist adds
CheckResults ==
    { pass("sh", c) : c \in {"Binary", "Symlink", "Other"} }
       \cup { fail("sh", c, "missing") : c \in {"Binary", "Symlink", "Other"} }

InitReport ==
    /\ pc = "report"
    /\ offset = 0
    /\ header = << >>
    /\ fields = NoFields
    /\ name_buf = << >>
    /\ name = << >>
    /\ content = << >>
    /\ entries = << >>
    /\ entry_map = EmptyMap
    /\ result = Running
    /\ fault = NoFault
    /\ archive = << >>
    /\ lookup = NoLookup
    /\ norm = NoNorm
    /\ report = new("cpio")
    /\ call = [op |-> "new", added |-> << >>]

Add ==
    /\ pc = "report"
    /\ Len(report.results) < MaxResults
    /\ \E check \in CheckResults :
          /\ report' = add(report, check)
          /\ call' = [op |-> "add", added |-> Append(call.added, check)]
    /\ UNCHANGED <<pc, offset, header, fields, name_buf, name, content, entries,
                   entry_map, result, fault, archive, lookup, norm>>

\* passed(), failed(), total(), is_success() and by_category() take &self
Query ==
    /\ pc = "report"
    /\ call.op # "query"
    /\ call' = [op          |-> "query",
                added       |-> call.added,
                passed      |-> passed(report),
                failed      |-> failed(report),
                total       |-> total(report),
                is_success  |-> is_success(report),
                by_category |-> by_category(report)]
    /\ UNCHANGED <<pc, offset, header, fields, name_buf, name, content, entries,
                   entry_map, result, fault, archive, lookup, norm, report>>

NextReport ==
    \/ Add
    \/ Query

SpecReport == InitReport /\ [][NextReport]_vars

(***************************************************************************)
(* Properties of the decode.                                               *)
(***************************************************************************)
HeaderEof == fault.at = "header" /\ fault.kind = "UnexpectedEof"

RecordEof ==
    /\ fault.kind = "UnexpectedEof"
    /\ fault.at \in {"name", "name_padding", "content", "content_padding"}

ValidMagics == {MAGIC_NEWC, MAGIC_CRC}

Terminated(field) == Len(field) > 0 /\ field[Len(field)] = NUL

\* C1: when the stream ends where a record header is expected (zero bytes
\* or fewer than 110 available) before a trailer was seen, the decode
\* returns an error and no index.
C1_HeaderEofIsError ==
    HeaderEof => (pc = "returned" /\ result.tag = "Err")

\* C2: when the stream ends inside the name, the name padding, the content
\* or the content padding of a record, the decode returns an error and no
\* index, however many valid records came before.
C2_RecordEofIsError ==
    RecordEof =>
        /\ pc = "returned"
        /\ result.tag = "Err"
        /\ result.error.code = "IoError"

C2_Witness ==
    /\ fault.kind = "UnexpectedEof"
    /\ fault.at = "content_padding"
    /\ Len(entries) >= 1
    /\ result.tag = "Err"

\* C3: a record header whose first 6 bytes are neither "070701" nor
\* "070702", at the first or at a later record, makes the decode return an
\* InvalidFormat error at once: nothing more is read and no index returned.
C3_BadMagicIsInvalidFormat ==
    [][ (pc = "decode_header" /\ Slice(header, 0, 6) \notin ValidMagics)
          => /\ pc' = "returned"
             /\ result'.tag = "Err"
             /\ result'.error.code = "InvalidFormat"
             /\ offset' = offset ]_vars

C3_Witness ==
    /\ pc = "returned"
    /\ result.tag = "Err"
    /\ result.error = [code |-> "InvalidFormat", message |-> "Invalid CPIO magic"]
    /\ Len(entries) >= 1

\* C4: the decode stops with success at the first record named
\* "TRAILER!!!": the trailer is never an entry, nothing is read or emitted
\* after it, and a stream of one trailer record gives an index without
\* entries.
C4_TrailerStopsDecode ==
    /\ [](\A i \in 1..Len(entries) : entries[i].path # TRAILER)
    /\ [][ (pc = "check_trailer" /\ name = TRAILER)
             => /\ pc' = "returned"
                /\ result' = [tag |-> "Ok",
                              reader |-> [entries |-> entries,
                                          entry_map |-> entry_map]]
                /\ offset' = offset ]_vars
    /\ [][ pc = "returned"
             => /\ pc' = "returned"
                /\ result' = result
                /\ entries' = entries
                /\ offset' = offset ]_vars

C4_Witness ==
    /\ pc = "returned"
    /\ fault.kind = "None"
    /\ result.tag = "Ok"
    /\ Len(result.reader.entries) = 0
    /\ offset = HEADER_LEN + Len(TRAILER) + 1 + 3

\* C5: after a successful decode of N records, entries() has exactly N
\* elements in the order of the archive, records with duplicate paths and
\* records whose normalized path is empty included.
C5_EntriesAreAllRecords ==
    result.tag = "Ok" =>
        /\ Len(result.reader.entries) = Len(archive)
        /\ \A i \in 1..Len(archive) :
              Terminated(archive[i]) =>
                  result.reader.entries[i].path \o <<NUL>> = archive[i]

C5_Witness ==
    /\ result.tag = "Ok"
    /\ archive = << <<DOT, SLASH, NUL>>, <<DOT, SLASH, NUL>> >>
    /\ Len(result.reader.entries) = 2

(***************************************************************************)
(* Properties of normalize_path.                                           *)
(***************************************************************************)
\* C6: normalize_path is idempotent: normalizing a normalized path gives
\* the same path.
C6_NormalizeIdempotent ==
    norm.twice # None => norm.twice = norm.once

\* C7: for a path p that begins neither with "./" nor with "/",
\* normalize_path("./" + p) = normalize_path("/" + p) = normalize_path(p) = p.
C7_PlainPathSpellings ==
    ( /\ norm.once # None
      /\ norm.dot # None
      /\ ~StartsWith(norm.path, <<DOT, SLASH>>)
      /\ ~StartsWith(norm.path, <<SLASH>>) )
    => /\ norm.once = <<norm.path>>
       /\ norm.dot = <<norm.path>>
       /\ norm.slash = <<norm.path>>

C7_Witness ==
    /\ norm.path = <<97, SLASH, DOT, 97>>
    /\ norm.once = <<norm.path>>
    /\ norm.slash = <<norm.path>>

(***************************************************************************)
(* Properties of the lookups.                                              *)
(***************************************************************************)
\* the records whose path normalizes to the key of the query
SameKey(q) ==
    { i \in 1..Len(entries) :
        normalize_path(entries[i].path) = normalize_path(q) }

Last(S) == CHOOSE i \in S : \A j \in S : j <= i

\* C8: exists(q) is true exactly when get(q) returns an entry, both answer
\* the same for q, "./" + q and "/" + q, and an entry returned by get(q)
\* has a path whose normalization is normalize_path(q).
C8_LookupSpellingsAgree ==
    lookup.asked =>
        /\ \A i \in 1..3 : lookup.exists[i] = (lookup.get[i] # None)
        /\ \A i \in 1..3 : lookup.exists[i] = lookup.exists[1]
        /\ \A i \in 1..3 : lookup.get[i] = lookup.get[1]
        /\ lookup.get[1] # None =>
              normalize_path(lookup.get[1][1].path) = normalize_path(lookup.path)

\* C9: when several records have paths that normalize to the same
\* non-empty string, get of that path returns the entry of the last of
\* them in archive order, and entries() still holds every one of them.
C9_LastDuplicateWins ==
    (lookup.asked /\ normalize_path(lookup.path) # << >>) =>
        /\ SameKey(lookup.path) = {} => lookup.get[1] = None
        /\ SameKey(lookup.path) # {} =>
              lookup.get[1] = <<entries[Last(SameKey(lookup.path))]>>
        /\ Len(entries) = Len(archive)

C9_Witness ==
    /\ lookup.asked
    /\ lookup.path = <<97>>
    /\ SameKey(lookup.path) = {1, 2}
    /\ entries[1] # entries[2]
    /\ lookup.get[1] = <<entries[2]>>

\* C10: the path index never has the empty string as a key: a record whose
\* normalized path is empty is in entries() but not indexed, and
\* exists(""), exists("/") and exists("./") are false.
C10_NoEmptyKey ==
    /\ << >> \notin DOMAIN entry_map
    /\ (lookup.asked /\ lookup.path \in { << >>, <<SLASH>>, <<DOT, SLASH>> })
          => ~lookup.exists[1]

C10_Witness ==
    /\ lookup.asked
    /\ lookup.path = <<DOT, SLASH>>
    /\ ~lookup.exists[1]
    /\ \E i \in 1..Len(entries) : entries[i].path = <<DOT, SLASH>>

(***************************************************************************)
(* Properties of the entries.                                              *)
(***************************************************************************)
\* C11: for every entry of a decode, link_target is present if and only if
\* the kind of the entry is Symlink, and for a symlink it holds the content
\* bytes of the record as they are, unresolved.
C11_LinkTargetIffSymlink ==
    /\ [](\A i \in 1..Len(entries) :
            (entries[i].link_target # None) <=> (entries[i].file_type = "Symlink"))
    /\ [][ (pc = "push_entry" /\ pc' = "read_header")
             => LET e == entries'[Len(entries')]
                IN  /\ Len(entries') = Len(entries) + 1
                    /\ e.file_type = "Symlink" => e.link_target = <<content>> ]_vars

C11_Witness ==
    /\ Len(entries) = 2
    /\ entries[1].file_type = "Symlink"
    /\ entries[1].link_target = << <<97>> >>
    /\ entries[2].file_type = "Regular"
    /\ entries[2].size = 4
    /\ entries[2].link_target = None

\* the type bits of a mode, mode & 0o170000, and the kind the table gives
TypeBitsOf(mode) == (mode % 65536) - (mode % 4096)

KindTable(bits) ==
    CASE bits = 32768 -> "Regular"        \* 0o100000
      [] bits = 16384 -> "Directory"      \* 0o040000
      [] bits = 40960 -> "Symlink"        \* 0o120000
      [] bits = 8192  -> "CharDevice"     \* 0o020000
      [] bits = 24576 -> "BlockDevice"    \* 0o060000
      [] bits = 4096  -> "Fifo"           \* 0o010000
      [] bits = 49152 -> "Socket"         \* 0o140000
      [] OTHER        -> "Unknown"

\* C12: the kind of an entry is the kind the table gives for the type bits
\* (mode & 0o170000) of its mode, every value outside the table being
\* Unknown; two entries with equal type bits have equal kinds, whatever
\* their permission bits, size or name.
C12_KindFromTypeBits ==
    (pc = "from_mode" /\ call.kinds # None)
        => LET kinds == call.kinds[1]
           IN  /\ kinds[1] = KindTable(TypeBitsOf(call.a.mode))
               /\ kinds[2] = KindTable(TypeBitsOf(call.b.mode))
               /\ TypeBitsOf(call.a.mode) = TypeBitsOf(call.b.mode)
                     => kinds[1] = kinds[2]

C12_Witness ==
    /\ pc = "from_mode"
    /\ call.kinds = << <<"Socket", "Socket">> >>
    /\ call.a.mode # call.b.mode
    /\ call.a.mode % 4096 # call.b.mode % 4096
    /\ call.a.size # call.b.size
    /\ call.a.name # call.b.name

\* C13: the padding p after a name of namesize bytes has 0 <= p < 4 and
\* (110 + namesize + p) % 4 = 0; the padding q after a content of filesize
\* bytes has 0 <= q < 4 and (filesize + q) % 4 = 0; the header of the next
\* record then starts at an offset that is a multiple of 4.
C13_PaddingAligns ==
    /\ (pc \in {"content_padding", "next_header"})
          => /\ call.p[1] \in 0..3
             /\ (110 + call.namesize + call.p[1]) % 4 = 0
    /\ (pc = "next_header")
          => /\ call.q[1] \in 0..3
             /\ (call.filesize + call.q[1]) % 4 = 0
             /\ call.at = call.start + 110 + call.namesize + call.p[1]
                             + call.filesize + call.q[1]
             /\ call.at % 4 = 0

C13_Witness ==
    /\ pc = "next_header"
    /\ call.namesize = 3
    /\ call.p = <<3>>
    /\ call.filesize = 5
    /\ call.q = <<3>>
    /\ call.at = 124

(***************************************************************************)
(* Properties of symlink resolution.                                       *)
(***************************************************************************)
Absolute(target) == Len(target) > 0 /\ target[1] = SLASH

\* the number of "/" characters a string begins with
LeadingSlashes(s) ==
    CHOOSE n \in 0..Len(s) :
        /\ \A i \in 1..n : s[i] = SLASH
        /\ n < Len(s) => s[n + 1] # SLASH

\* C14: for a target that begins with "/", the resolved path is the target
\* without the "/" characters it begins with (x/y for /x/y), whatever the
\* path of the symlink: the target is taken relative to the archive root.
C14_AbsoluteTargetFromRoot ==
    (pc = "resolve" /\ call.resolved # None /\ Absolute(call.target))
        => LET n == LeadingSlashes(call.target)
           IN  /\ call.resolved[1] = SubSeq(call.target, n + 1, Len(call.target))
               /\ n = 1 => call.resolved[1] = Tail(call.target)

C14_Witness ==
    /\ pc = "resolve"
    /\ call.link_path = <<97, SLASH, 98, SLASH, 108>>
    /\ call.target = <<SLASH, 120, SLASH, 121>>
    /\ call.resolved = << <<120, SLASH, 121>> >>

\* the segments of a path: the text between its "/" characters
SepsOf(s) == {i \in 1..Len(s) : s[i] = SLASH}

NthSep(s, k) ==
    CHOOSE i \in SepsOf(s) : Cardinality({j \in SepsOf(s) : j <= i}) = k

SegmentsOf(s) ==
    LET n == Cardinality(SepsOf(s))
    IN  [k \in 1..(n + 1) |->
            SubSeq(s, IF k = 1 THEN 1 ELSE NthSep(s, k - 1) + 1,
                      IF k = n + 1 THEN Len(s) ELSE NthSep(s, k) - 1)]

\* the segments of the link path without the last one
DirSegments(link_path) ==
    LET segs == SegmentsOf(link_path)
    IN  SubSeq(segs, 1, Len(segs) - 1)

RECURSIVE Walk(_, _)
\* lexical resolution: "." and "" skipped, ".." pops if it can, names pushed
Walk(stack, parts) ==
    IF parts = << >> THEN stack
    ELSE LET part == Head(parts)
             next == CASE part \in {<<DOT>>, << >>} -> stack
                       [] part = <<DOT, DOT>> ->
                            IF stack = << >> THEN << >>
                            ELSE SubSeq(stack, 1, Len(stack) - 1)
                       [] OTHER -> Append(stack, part)
         IN  Walk(next, Tail(parts))

RECURSIVE Joined(_)
Joined(parts) ==
    IF parts = << >> THEN << >>
    ELSE IF Len(parts) = 1 THEN parts[1]
    ELSE parts[1] \o <<SLASH>> \o Joined(Tail(parts))

\* a link path as an archive names its members: segments separated by
\* single "/" characters, none of them empty, "." at most in front
PlainLink(link_path) ==
    LET segs == SegmentsOf(link_path)
    IN  \A k \in 1..Len(segs) :
            /\ segs[k] # << >>
            /\ k > 1 => segs[k] # <<DOT>>

Checked == pc = "returned" /\ call.op = "symlink_target_exists"

\* the records of the archive that are indexed under the key of a path
IndexedAt(reader, path) ==
    { i \in 1..Len(reader.entries) :
         /\ normalize_path(reader.entries[i].path) = normalize_path(path)
         /\ normalize_path(path) # << >> }

\* the path the checked entry's target resolves to
ResolvedOf(entry) == resolve_symlink_target(entry.path, entry.link_target[1])

\* C16: symlink_target_exists(entry) is exists(resolve(entry.path,
\* entry.link_target)): true exactly when the entry has a link target and
\* some record is indexed at the resolved path; false, not an error, for a
\* dangling symlink and for an entry without link target.
C16_TargetExistsIsIndexLookup ==
    Checked
        => /\ call.answer \in BOOLEAN
           /\ call.entry.link_target = None => call.answer = FALSE
           /\ call.entry.link_target # None
                 => /\ call.answer = exists(result.reader, ResolvedOf(call.entry))
                    /\ call.answer
                          = (IndexedAt(result.reader, ResolvedOf(call.entry)) # {})

\* a dangling symlink of the archive: "." -> "a", and no record named a
C16_Witness ==
    /\ Checked
    /\ \E i \in 1..Len(result.reader.entries) :
          call.entry = result.reader.entries[i]
    /\ call.entry.file_type = "Symlink"
    /\ call.entry.path = <<DOT>>
    /\ call.entry.link_target = << <<97>> >>
    /\ call.answer = FALSE

\* the entry is a symlink whose own target is not indexed, or is itself
Dangling(reader, e) ==
    /\ e.link_target # None
    /\ IndexedAt(reader, ResolvedOf(e)) = {}

SelfCycle(reader, e) ==
    /\ e.link_target # None
    /\ normalize_path(ResolvedOf(e)) = normalize_path(e.path)

\* C17: the check is single-hop and lexical: it answers true whenever the
\* path the target resolves to is indexed, also when the entry indexed there
\* is a symlink that dangles or points to itself; the targets of the other
\* entries play no part.
C17_SingleHop ==
    (Checked /\ call.entry.link_target # None)
        => LET found == IndexedAt(result.reader, ResolvedOf(call.entry))
           IN  /\ found # {} => call.answer = TRUE
               /\ \A i \in found :
                     (Dangling(result.reader, result.reader.entries[i])
                        \/ SelfCycle(result.reader, result.reader.entries[i]))
                        => call.answer = TRUE

\* "./x" -> "." where the record "." is a symlink to a, and no record a
C17_Witness ==
    /\ Checked
    /\ call.entry.link_target # None
    /\ call.answer = TRUE
    /\ \E i \in IndexedAt(result.reader, ResolvedOf(call.entry)) :
          /\ result.reader.entries[i].file_type = "Symlink"
          /\ Dangling(result.reader, result.reader.entries[i])

\* the positions of the entries of a kind, and the k-th of them
PositionsOf(reader, kind) ==
    {i \in 1..Len(reader.entries) : reader.entries[i].file_type = kind}

NthOf(reader, kind, k) ==
    CHOOSE i \in PositionsOf(reader, kind) :
        Cardinality({j \in PositionsOf(reader, kind) : j <= i}) = k

\* the entries of a kind in the order of the archive
OfKind(reader, kind) ==
    [k \in 1..Cardinality(PositionsOf(reader, kind)) |->
        reader.entries[NthOf(reader, kind, k)]]

\* C18: files(), directories() and symlinks() yield the entries of
\* entries() whose kind is Regular, Directory and Symlink, in the order of
\* the archive, and yield the same sequences when they are called again.
C18_FiltersInArchiveOrder ==
    (pc = "returned" /\ call.op = "enumerate")
        => /\ call.first.files = OfKind(result.reader, "Regular")
           /\ call.first.directories = OfKind(result.reader, "Directory")
           /\ call.first.symlinks = OfKind(result.reader, "Symlink")
           /\ call.again # None => call.again[1] = call.first

C18_Witness ==
    /\ pc = "returned"
    /\ call.op = "enumerate"
    /\ call.again # None
    /\ Len(result.reader.entries) = 2
    /\ result.reader.entries[1].file_type = "Symlink"
    /\ result.reader.entries[2].file_type = "Regular"
    /\ Len(call.again[1].files) = 1
    /\ Len(call.again[1].symlinks) = 1
    /\ call.again[1].directories = << >>

(***************************************************************************)
(* Properties of the header decoder.                                       *)
(***************************************************************************)
IsHexDigit(c) == c \in (48..57) \cup (65..70) \cup (97..102)

AllHex(text) == \A i \in 1..Len(text) : IsHexDigit(text[i])

RECURSIVE HexValue(_)
\* the number a text of hexadecimal digits writes
HexValue(text) ==
    IF text = << >> THEN 0
    ELSE LET c == text[Len(text)]
             d == IF c <= 57 THEN c - 48 ELSE IF c <= 70 THEN c - 55 ELSE c - 87
         IN  16 * HexValue(SubSeq(text, 1, Len(text) - 1)) + d

\* the j-th 8-character field behind the 6-byte magic
FieldText(h, j) == SubSeq(h, 6 + 8 * (j - 1) + 1, 6 + 8 * j)

\* C19: every field the decoder uses (mode, uid, gid, nlink, mtime,
\* filesize, dev major/minor, rdev major/minor, namesize: header bytes
\* 14..101) must be 8 hexadecimal digits; a header with a valid magic and
\* any other character in one of them makes the decode fail with
\* InvalidFormat, and no index is returned.
C19_NonHexFieldIsInvalidFormat ==
    [][ (/\ pc = "decode_header"
         /\ Slice(header, 0, 6) \in ValidMagics
         /\ ~AllHex(Slice(header, 14, 102)))
           => /\ pc' = "returned"
              /\ result'.tag = "Err"
              /\ result'.error.code = "InvalidFormat" ]_vars

\* C20 as documented: twelve fields from offset 6 in the order mode, uid,
\* gid, nlink, mtime, filesize, devmajor, devminor, rdevmajor, rdevminor,
\* namesize, check; mode is decoded from header bytes 6..13 and namesize
\* from the eleventh field.
C20_DocumentedLayout ==
    [][ (pc = "decode_header" /\ pc' = "read_name"
            /\ AllHex(FieldText(header, 1)) /\ AllHex(FieldText(header, 11)))
           => /\ fields'.mode = HexValue(FieldText(header, 1))
              /\ fields'.namesize = HexValue(FieldText(header, 11)) ]_vars

\* the thirteen fields of a newc header, in their order
LayoutNames ==
    << "ino", "mode", "uid", "gid", "nlink", "mtime", "filesize", "dev_major",
       "dev_minor", "rdev_major", "rdev_minor", "namesize", "check" >>

\* C20: the decoder reads the header fields at the positions of the newc
\* layout: the 6-byte magic at offset 0, followed from offset 6 by thirteen
\* 8-character hex fields in the order ino, mode, uid, gid, nlink, mtime,
\* filesize, devmajor, devminor, rdevmajor, rdevminor, namesize, check; ino
\* and check are not decoded, mode is decoded from header bytes 14..21 and
\* namesize from the twelfth field, bytes 94..101.
C20_NewcLayout ==
    [][ (pc = "decode_header" /\ pc' = "read_name")
           => /\ Len(header) = 6 + 8 * Len(LayoutNames)
              /\ \A j \in 2..12 :
                    AllHex(FieldText(header, j))
                       => fields'[LayoutNames[j]] = HexValue(FieldText(header, j))
              /\ AllHex(Slice(header, 14, 22))
                    => fields'.mode = HexValue(Slice(header, 14, 22))
              /\ AllHex(Slice(header, 94, 102))
                    => fields'.namesize = HexValue(Slice(header, 94, 102)) ]_vars

\* a symbolic link's header decoded: ino 9 in front of mode 0o120777
C20_Witness ==
    /\ pc = "read_name"
    /\ FieldText(header, 1) = <<48, 48, 48, 48, 48, 48, 48, 57>>
    /\ fields.mode = 41471
    /\ fields.filesize = 1
    /\ fields.namesize = 2

(***************************************************************************)
(* Properties of the entry fields.                                         *)
(***************************************************************************)
\* C21: every entry of a decode has a normalized path: entry.path never
\* begins with "./" or "/", whatever the name in the record was.
C21_EntryPathNormalized ==
    \A i \in 1..Len(entries) :
        /\ ~StartsWith(entries[i].path, <<DOT, SLASH>>)
        /\ ~StartsWith(entries[i].path, <<SLASH>>)

\* C22 as documented: the size of an entry is the declared filesize for a
\* regular file and 0 for every entry of another kind.
C22_SizeZeroUnlessRegular ==
    \A i \in 1..Len(entries) :
        entries[i].file_type # "Regular" => entries[i].size = 0

\* C22: the size of an entry is the filesize its record declares, whatever
\* its kind: a symlink has the length of its target as size.
C22_SizeIsFilesize ==
    [][ (pc = "push_entry" /\ pc' = "read_header")
           => /\ Len(entries') = Len(entries) + 1
              /\ entries'[Len(entries')].size = HexValue(FieldText(header, 7))
              /\ entries'[Len(entries')].size = Len(content) ]_vars

C22_Witness ==
    /\ Len(entries) = 2
    /\ entries[1].file_type = "Symlink"
    /\ entries[1].size = 1
    /\ entries[2].file_type = "Directory"
    /\ entries[2].size = 0

\* C23: a short read (the stream ends inside a header, a name or a content)
\* is reported with the error kind UnexpectedEndOfStream, which is neither
\* the kind of the read errors of the byte source nor InvalidFormat.
C23_ShortReadKind ==
    (pc = "returned" /\ fault.kind = "UnexpectedEof"
        /\ fault.at \in {"header", "name", "content"}
        /\ (fault.at = "header" => fault.avail > 0))
        => /\ result.tag = "Err"
           /\ result.error.code = "UnexpectedEndOfStream"
           /\ result.error.code \notin {"IoError", "InvalidFormat"}

\* bit i of a mode, bit 0 being the lowest
BitOf(mode, i) == (mode \div (2 ^ i)) % 2

\* the letter of a kind in a listing
KindLetter(kind) ==
    CASE kind = "Directory" -> "d" [] kind = "Symlink" -> "l"
      [] kind = "CharDevice" -> "c" [] kind = "BlockDevice" -> "b"
      [] kind = "Fifo" -> "p" [] kind = "Socket" -> "s"
      [] kind \in {"Regular", "Unknown"} -> "-"

LetterCode(l) ==
    CASE l = "d" -> 100 [] l = "l" -> 108 [] l = "c" -> 99 [] l = "b" -> 98
      [] l = "p" -> 112 [] l = "s" -> 115 [] l = "-" -> 45 [] l = "r" -> 114
      [] l = "w" -> 119 [] l = "x" -> 120 [] l = "S" -> 83 [] l = "t" -> 116
      [] l = "T" -> 84

\* the letter at an execute position: x is the execute bit, sp the setuid,
\* setgid or sticky bit, l the letter that shows it
ExecLetter(x, sp, l) ==
    CASE sp = 1 /\ x = 1 -> l
      [] sp = 1 /\ x = 0 -> (IF l = "s" THEN "S" ELSE "T")
      [] sp = 0 /\ x = 1 -> "x"
      [] sp = 0 /\ x = 0 -> "-"

\* C24: permissions() is the low 12 bits of mode, and mode_string() has 10
\* characters: the letter of the kind ('-' for Regular and Unknown), then
\* the rwx triples of owner, group and other, where the execute position
\* shows s/S for setuid and setgid and t/T for sticky, in lower case when
\* the execute bit is set as well.
C24_ModeString ==
    /\ (pc \in {"mode_string", "formatted"})
          => /\ call.permissions[1] \in 0..4095
             /\ \A i \in 0..11 :
                   BitOf(call.permissions[1], i) = BitOf(call.entry.mode, i)
    /\ (pc = "formatted")
          => LET m == call.entry.mode
                 t == call.text[1]
                 b(i) == BitOf(m, i)
                 rw(i, l) == IF b(i) = 1 THEN l ELSE "-"
             IN  /\ Len(t) = 10
                 /\ t[1] = LetterCode(KindLetter(call.entry.file_type))
                 /\ t[2] = LetterCode(rw(8, "r"))
                 /\ t[3] = LetterCode(rw(7, "w"))
                 /\ t[4] = LetterCode(ExecLetter(b(6), b(11), "s"))
                 /\ t[5] = LetterCode(rw(5, "r"))
                 /\ t[6] = LetterCode(rw(4, "w"))
                 /\ t[7] = LetterCode(ExecLetter(b(3), b(10), "s"))
                 /\ t[8] = LetterCode(rw(2, "r"))
                 /\ t[9] = LetterCode(rw(1, "w"))
                 /\ t[10] = LetterCode(ExecLetter(b(0), b(9), "t"))

\* mode 0o100755 gives "-rwxr-xr-x"
C24_Witness ==
    /\ pc = "formatted"
    /\ call.entry.mode = 33261
    /\ call.entry.file_type = "Regular"
    /\ call.permissions = <<493>>
    /\ call.text = << <<45, 114, 119, 120, 114, 45, 120, 114, 45, 120>> >>

(***************************************************************************)
(* Termination of the decode.                                              *)
(***************************************************************************)
\* the steps of one pass through the record loop, counted from its end
StepsLeft(at) ==
    CASE at = "read_header" -> 8
      [] at = "decode_header" -> 7
      [] at = "read_name" -> 6
      [] at = "skip_name_padding" -> 5
      [] at = "check_trailer" -> 4
      [] at = "read_content" -> 3
      [] at = "skip_content_padding" -> 2
      [] at = "push_entry" -> 1
      [] at = "returned" -> 0

\* a bound on the steps the decode can still take: the records the source
\* can still give, and the steps left in the current pass
Variant == 9 * (MaxRecords - Len(entries)) + StepsLeft(pc)

\* C25: the decode of a finite stream terminates: a pass through the record
\* loop reads the 110 bytes of a header or ends the decode, the stream
\* position never moves back, every step brings the decode nearer to its
\* return, and it returns an index or the error of the first malformed
\* record, after which nothing is decoded.
C25_DecodeTerminates ==
    /\ [](Variant >= 0)
    /\ [](pc = "returned" <=> result.tag \in {"Ok", "Err"})
    /\ [][ /\ Variant' < Variant
           /\ offset' >= offset
           /\ pc # "returned"
           /\ pc = "read_header"
                => \/ pc' = "returned"
                   \/ pc' = "decode_header" /\ offset' = offset + 110 ]_vars

\* two records and the trailer, each behind its 110 header bytes
C25_Witness ==
    /\ pc = "returned"
    /\ result.tag = "Ok"
    /\ fault = NoFault
    /\ Len(result.reader.entries) = 2
    /\ offset >= 3 * 110

(***************************************************************************)
(* Further properties of normalize_path, of the name and of the index.     *)
(***************************************************************************)
\* a path without one leading "./", if it has one, and then without the
\* "/" characters it begins with
StripOnce(path) ==
    LET q == IF StartsWith(path, <<DOT, SLASH>>) THEN Drop(path, 2) ELSE path
    IN  SubSeq(q, LeadingSlashes(q) + 1, Len(q))

\* C26: normalize_path removes at most one leading "./" and then all
\* leading "/" characters: a path with a repeated prefix, such as "././a",
\* keeps its second "./".
C26_SingleDotSlashStripped ==
    (pc = "normalize" /\ norm.once # None)
        => norm.once[1] = StripOnce(norm.path)

\* the name bytes of a record with only a trailing NUL removed
NameOf(field) ==
    IF Terminated(field) THEN SubSeq(field, 1, Len(field) - 1) ELSE field

\* C27: the name of an entry is the name bytes of the record with only the
\* trailing NUL removed, so a name keeps its last byte when that byte is
\* not NUL; a record is the trailer exactly when that name is "TRAILER!!!",
\* so "TRAILER!!!" followed by another byte than NUL is not the trailer.
C27_OnlyNulTrimmed ==
    [][ (pc = "check_trailer")
           => /\ name = NameOf(name_buf)
              /\ (pc' = "returned" /\ result'.tag = "Ok")
                    <=> (NameOf(name_buf) = TRAILER) ]_vars

\* the names a record of the root directory itself can have
RootNames == { <<DOT>>, <<DOT, SLASH>>, <<SLASH>> }

\* C28: the root pseudo-entry is never indexed: for a record of the root
\* directory itself, named ".", "./" or "/", the index has no key and
\* exists of that name is false, while entries() still lists the record.
C28_RootNotIndexed ==
    (pc = "returned" /\ result.tag = "Ok")
        => \A i \in 1..Len(result.reader.entries) :
              LET e == result.reader.entries[i]
              IN  e.path \in RootNames
                     => /\ ~exists(result.reader, e.path)
                        /\ \A k \in DOMAIN result.reader.entry_map :
                              result.reader.entry_map[k] # i - 1

\* C29: the answer of symlink_target_exists does not depend on how the path
\* of the symlink is written: for a path p and a relative target t, the
\* entries with path p and with path "./" + p resolve to paths with the same
\* normalization and get the same answer, also for targets such as ".."
\* that climb to the top directory of the link or past it.
C29_SpellingOfLinkPath ==
    (pc = "returned" /\ call.op = "spellings")
        => /\ normalize_path(call.plain.resolved)
                 = normalize_path(call.dotted.resolved)
           /\ call.plain.answer = call.dotted.answer

(***************************************************************************)
(* Properties of the verification report.                                  *)
(***************************************************************************)
\* the added results that passed, and those that did not
PassedAdds == {i \in 1..Len(call.added) : call.added[i].passed}

FailedAdds == {i \in 1..Len(call.added) : ~call.added[i].passed}

\* C30: after any sequence of adds, the results are the added results in
\* the order of the adds; passed() + failed() = total() = number of adds;
\* is_success() is true exactly when failed() = 0, so an empty report is a
\* success; passed(), failed(), total(), is_success() and by_category()
\* leave the results unchanged.
C30_ReportCounts ==
    /\ [](pc = "report" => report.results = call.added)
    /\ [](pc = "report" /\ call.op = "query"
            => /\ call.total = Len(call.added)
               /\ call.passed = Cardinality(PassedAdds)
               /\ call.failed = Cardinality(FailedAdds)
               /\ call.passed + call.failed = call.total
               /\ call.is_success = (call.failed = 0)
               /\ call.added = << >> => call.is_success)
    /\ [][ (pc = "report" /\ call'.op = "query") => report' = report ]_vars

C30_Witness ==
    /\ pc = "report"
    /\ call.op = "query"
    /\ call.total = 3
    /\ call.passed = 2
    /\ call.failed = 1
    /\ ~call.is_success
    /\ report.results[1].passed /\ ~report.results[2].passed
    /\ Len(call.by_category) = 2

====
